---- MODULE Spec2Model ----
(***************************************************************************)
(* A model of dexcom/convert_to_JSON.py: the Dexcom reading model          *)
(* (Dexcom._set_value) and the "bloodhound" walk of DexcomJSON over the    *)
(* readings, with its change log (offset_changes), the timezone prompt     *)
(* (_get_timezone) and the files it writes.                                *)
(*                                                                         *)
(* Timestamps.  A raw Dexcom timestamp string "YYYY-MM-DD HH:MM:SS" or     *)
(* "YYYY-MM-DD HH:MM:SS.mmm" is the record [sec, ms]: sec the seconds      *)
(* since the model's epoch (2014-06-30 00:00:00), ms the millisecond       *)
(* suffix or -1 when the string has none.  The empty string '' is NoTime.  *)
(* A parsed datetime and its isoformat() string are the number sec.        *)
(*                                                                         *)
(* The script is read as Python 3 (it catches FileNotFoundError) before    *)
(* 3.11 (it opens the change log with mode 'rU'): round() rounds an exact  *)
(* half to the even neighbour and / is the true division.  The change log  *)
(* __init__ reads (output_opts['bloodhound']) is taken to be the           *)
(* bloodhound.json that bloodhound writes; a missing file loads as the     *)
(* empty list, like the empty file <<>>.  Timezones are those with a       *)
(* whole-hour offset.  The uuid of an output row is left out.              *)
(***************************************************************************)
EXTENDS Integers, Sequences, FiniteSets, TLC

\* ------------------------------------------------------------- bounds
MaxLen == 3
MaxTime == 2
MaxFile == 1
MaxSaved == 3
MaxRuns == 2
MaxOver == 5

\* ---------------------------------------------------- program constants
SECONDS_IN_HOUR == 3600

SecondsInDay == 24 * SECONDS_IN_HOUR

\* ------------------------------------------------------ raw timestamps
NoTime == [sec |-> 0, ms |-> -1]

\* Python's str < str on two timestamp strings of the formats above ('' is
\* below every string, a string is above its proper prefixes).
RawLess(a, b) ==
  \/ a.sec < b.sec
  \/ a.sec = b.sec /\ a.ms < b.ms

\* parse_datetime: strptime with DEX_FORMAT, and on ValueError (a string
\* with milliseconds) strptime of the string without its last 4 characters.
parse_datetime(raw) ==
  IF raw.ms = -1 THEN raw.sec ELSE [raw EXCEPT !.ms = -1].sec

\* datetime.isoformat() of a parsed datetime: the key strings of the log.
isoformat(d) == d

\* datetime.month of a parsed datetime: the epoch is 2014-06-30 00:00:00.
MonthOf(d) == IF d >= SecondsInDay THEN 7 ELSE 6

\* datetime_difference(d1, d2) = d2 - d1, a timedelta, in seconds.
datetime_difference(d1, d2) == d2 - d1

\* timedelta.days and timedelta.seconds (0 <= seconds < 86400).
TdDays(td) == td \div SecondsInDay

TdSeconds(td) == td % SecondsInDay

\* Python 3 round(-s / 3600) for an integer s >= 0: to the nearest integer,
\* an exact half to the even neighbour.
RoundNegHours(s) ==
  LET q == s \div SECONDS_IN_HOUR
      r == s % SECONDS_IN_HOUR
  IN  IF 2 * r < SECONDS_IN_HOUR THEN -q
      ELSE IF 2 * r > SECONDS_IN_HOUR THEN -(q + 1)
      ELSE IF q % 2 = 0 THEN -q ELSE -(q + 1)

\* diff of bloodhound (lines 299-304): <<timedelta, hours>>.
DiffOf(obj) ==
  LET user_time == parse_datetime(obj.user_time)
      internal_time == parse_datetime(obj.internal_time)
      timedelta == datetime_difference(user_time, internal_time)
  IN  <<timedelta, RoundNegHours(TdSeconds(timedelta))>>

DiffHours(obj) == DiffOf(obj)[2]

\* ------------------------------------------------------------ readings
Generations == {"SevenPlus", "G4Platinum"}

Serials == {"SM1", "SM2"}

\* "gen 'SevenPlus' date and time info includes milliseconds" (line 49)
MillisOf(gen) == IF gen = "SevenPlus" THEN 500 ELSE -1

\* internal clock: readings 5 minutes apart on 2014-07-01
InternalSecs == {SecondsInDay + 300 * k : k \in 1..MaxTime}

\* internal minus display clock, in seconds
ClockGaps == {4 * SECONDS_IN_HOUR, 5 * SECONDS_IN_HOUR}

\* Dexcom.__init__ (without the value, see SetValue): the object's fields;
\* display is <<>> until bloodhound sets display_offset and timezone, time
\* is <<>> for ''.
Readings ==
  { [internal_time |-> [sec |-> s, ms |-> MillisOf(gen)],
     user_time     |-> [sec |-> s - g, ms |-> MillisOf(gen)],
     device_gen    |-> gen,
     serial        |-> sn,
     display       |-> <<>>,
     time          |-> <<>>] :
      s \in InternalSecs, g \in ClockGaps,
      gen \in Generations, sn \in Serials }

\* display clocks set half an hour to more than a day behind the internal
\* clock, and one set ahead of it (internal minus display, in seconds)
SkewedGaps ==
  {1800, 3000, 3600, 5400, 9000, 4 * SECONDS_IN_HOUR, 4 * SECONDS_IN_HOUR + 1200,
   25 * SECONDS_IN_HOUR, -4 * SECONDS_IN_HOUR}

\* the readings of a receiver whose display clock is set so
SkewedReadings ==
  { [internal_time |-> [sec |-> s, ms |-> MillisOf(gen)],
     user_time     |-> [sec |-> s - g, ms |-> MillisOf(gen)],
     device_gen    |-> gen,
     serial        |-> sn,
     display       |-> <<>>,
     time          |-> <<>>] :
      s \in InternalSecs, g \in SkewedGaps,
      gen \in Generations, sn \in Serials }

\* self.all after the sort of line 157: descending by the raw internal_time
SortedDescending(s) ==
  \A k \in 1..(Len(s) - 1) : ~RawLess(s[k].internal_time, s[k + 1].internal_time)

Streams ==
  { s \in UNION {[1..n -> Readings] : n \in 0..MaxLen} : SortedDescending(s) }

\* ---------------------------------------------------------- change log
DstSuffix == "; shift to/from DST"

ChangeRecord(offset, internal, display, reason, timezone) ==
  [display_offset |-> offset,
   effective_at   |-> [internal_time |-> internal, display_time |-> display],
   reason         |-> reason,
   subtype        |-> "timezone offset",
   timezone       |-> timezone,
   type           |-> "meta"]

KeyOf(change) == change.effective_at.internal_time

\* records of a bloodhound.json written earlier; key 0 is the '' of a
\* bootstrap record written by an earlier variant of the script
FileRecords ==
  { ChangeRecord(o[1], k, IF k = 0 THEN 0 ELSE k - 4 * SECONDS_IN_HOUR,
                 "inferred via bloodhound protocol", o[2]) :
      k \in {0} \cup InternalSecs,
      o \in {<<-4, "US/Eastern">>, <<0, "UTC">>} }

KeysDescending(f) ==
  \A k \in 1..(Len(f) - 1) : KeyOf(f[k]) >= KeyOf(f[k + 1])

Files(n) ==
  { f \in UNION {[1..m -> FileRecords] : m \in 0..n} : KeysDescending(f) }

RECURSIVE SelectDated(_)
\* __init__ lines 161-170: the records whose internal_time is not ''
SelectDated(changes) ==
  IF changes = <<>> THEN <<>>
  ELSE IF KeyOf(Head(changes)) # 0
       THEN <<Head(changes)>> \o SelectDated(Tail(changes))
       ELSE SelectDated(Tail(changes))

LoadChanges(f) == SelectDated(f)

\* ------------------------------------------------------- reading values
\* dct['value'] is a CSV cell: digits |-> TRUE for a cell int() accepts (n its
\* value), else the text of the cell
IntCell(k) == [digits |-> TRUE, n |-> k, text |-> ""]

TextCell(t) == [digits |-> FALSE, n |-> 0, text |-> t]

NoValue == TextCell("")

RawValues ==
  {IntCell(k) : k \in 0..(600 + MaxOver)} \cup {TextCell(t) : t \in {"Low", "High", "", "abc"}}

OutOfRange(threshold, value) ==
  <<[code |-> "bg/out-of-range", threshold |-> threshold, value |-> value]>>

\* SetValue with the bounds of line 75 exclusive
SetValueExclusive(value) ==
  IF value.digits
  THEN IF value.n > 20 /\ value.n < 600
       THEN [raised |-> FALSE, value |-> <<value.n>>, has_annotations |-> TRUE,
             annotations |-> <<>>]
       ELSE [raised |-> TRUE, value |-> <<>>, has_annotations |-> FALSE,
             annotations |-> <<>>]
  ELSE IF value.text = "Low"
       THEN [raised |-> FALSE, value |-> <<39>>, has_annotations |-> TRUE,
             annotations |-> OutOfRange(40, "low")]
       ELSE IF value.text = "High"
            THEN [raised |-> FALSE, value |-> <<401>>, has_annotations |-> TRUE,
                  annotations |-> OutOfRange(400, "high")]
            ELSE [raised |-> FALSE, value |-> <<>>, has_annotations |-> FALSE,
                  annotations |-> <<>>]

\* Dexcom._set_value (lines 70-94): raised for the Exception of line 79, which
\* "except ValueError" does not catch; value <<>> for the None a cell that is
\* neither a number nor Low/High falls through to; annotations <<>> for None,
\* has_annotations FALSE when the attribute is never set
SetValue(value) ==
  IF value.digits
  THEN IF value.n >= 20 /\ value.n <= 600
       THEN [raised |-> FALSE, value |-> <<value.n>>, has_annotations |-> TRUE,
             annotations |-> <<>>]
       ELSE [raised |-> TRUE, value |-> <<>>, has_annotations |-> FALSE,
             annotations |-> <<>>]
  ELSE IF value.text = "Low"
       THEN [raised |-> FALSE, value |-> <<39>>, has_annotations |-> TRUE,
             annotations |-> OutOfRange(40, "low")]
       ELSE IF value.text = "High"
            THEN [raised |-> FALSE, value |-> <<401>>, has_annotations |-> TRUE,
                  annotations |-> OutOfRange(400, "high")]
            ELSE [raised |-> FALSE, value |-> <<>>, has_annotations |-> FALSE,
                  annotations |-> <<>>]


VARIABLES
  all,                  \* self.all
  offset_changes,       \* self.offset_changes
  file,                 \* bloodhound.json
  logfile,              \* bloodhound.log
  out,                  \* the output file of print_JSON
  pc,                   \* where the run is
  i,                    \* index in self.all of the loop's obj
  initial_difference,   \* <<>> for ''
  current_difference,
  effective_ats,
  current_effective_at,
  offsets,              \* <<>> while unassigned
  asked,                \* the prompts of this run: where asked, what was typed
  file0,                \* bloodhound.json as this run found it
  run,                  \* which invocation of the script this is
  dct_value,            \* dct['value'] handed to Dexcom.__init__
  built,                \* <<>>, or <<the outcome of Dexcom.__init__>>
  previous              \* what the invocation before this one left behind

vars == <<all, offset_changes, file, logfile, out, pc, i, initial_difference,
          current_difference, effective_ats, current_effective_at, offsets,
          asked, file0, run, dct_value, built, previous>>

\* what the walk never touches
others == <<run, dct_value, built, previous>>

\* there was no invocation before the first
NoPrevious == [all |-> <<>>, asked |-> <<>>, pc |-> "none"]

\* ------------------------------------------------------------ the prompt
\* the names pytz knows (of those the model uses) and what the user types
TzDatabase == {"US/Eastern", "UTC"}

TzInputs == {"US/Eastern", "Mars/Phobos"}

DstInputs == {"y", "n"}

\* tz(res).utcoffset(d) in seconds, for the days of the model (30 June and
\* 1 July 2014: US/Eastern is on daylight time)
UtcOffset(res, d) == IF res = "US/Eastern" THEN -4 * SECONDS_IN_HOUR ELSE 0

\* the change_type strings of the four calls of _add_offset_change
InputByUser == "input by user"

DeviceIdentityChange == "changed G4 Platinum device"

DeviceGenerationChange == "changed to Seven Plus device"

InferredDrift == "inferred via bloodhound protocol"

\* _get_timezone (lines 214-237) with the two answers res and dst.  tz(res)
\* raises UnknownTimeZoneError for a name pytz does not know; nothing in the
\* script catches it.
GetTimezone(obj, change_type, res, dst) ==
  IF res \notin TzDatabase
  THEN [raised |-> TRUE, timezone |-> res, offset |-> 0, type |-> change_type]
  ELSE
    LET td_offset == UtcOffset(res, parse_datetime(obj.user_time))
        offset == TdDays(td_offset) * 24 + TdSeconds(td_offset) \div SECONDS_IN_HOUR
    IN  [raised   |-> FALSE,
         timezone |-> res,
         offset   |-> IF dst = "y"
                      THEN IF MonthOf(parse_datetime(obj.user_time)) > 6
                           THEN offset + 1 ELSE offset - 1
                      ELSE offset,
         type     |-> IF dst = "y" THEN change_type \o DstSuffix ELSE change_type]

\* AppendChange without the notstart test
AppendChangeAlways(changes, obj, tz_res, notstart) ==
  Append(changes,
         ChangeRecord(tz_res.offset,
                      isoformat(parse_datetime(obj.internal_time)),
                      isoformat(parse_datetime(obj.user_time)),
                      tz_res.type, tz_res.timezone))

\* _add_offset_change lines 191-203: the list after the call
AppendChange(changes, obj, tz_res, notstart) ==
  IF notstart
  THEN Append(changes,
              ChangeRecord(tz_res.offset,
                           isoformat(parse_datetime(obj.internal_time)),
                           isoformat(parse_datetime(obj.user_time)),
                           tz_res.type, tz_res.timezone))
  ELSE changes

\* _get_offset_change (lines 207-212): the first record with the key; <<>>
\* for the None of a key that no record has
RECURSIVE GetOffsetChange(_, _)
GetOffsetChange(changes, effective_at) ==
  IF changes = <<>> THEN <<>>
  ELSE IF KeyOf(Head(changes)) = isoformat(parse_datetime(effective_at))
       THEN <<Head(changes)>>
       ELSE GetOffsetChange(Tail(changes), effective_at)

\* enlighten_datetime (line 41): the display time with a fixed-offset tzinfo
EnlightenedTime(obj, display_offset) ==
  <<isoformat(parse_datetime(obj.user_time)), display_offset>>

\* lines 325-330: the object with the offsets attached, when there are any
Annotate(objs, k, offs) ==
  IF offs # <<>>
  THEN [objs EXCEPT ![k].display = offs,
                    ![k].time = EnlightenedTime(objs[k], offs[1])]
  ELSE objs

\* ------------------------------------------------------------- the files
RECURSIVE InsertByKey(_, _)
InsertByKey(sorted, change) ==
  IF sorted = <<>> THEN <<change>>
  ELSE IF KeyOf(change) < KeyOf(Head(sorted))
       THEN <<change>> \o sorted
       ELSE <<Head(sorted)>> \o InsertByKey(Tail(sorted), change)

RECURSIVE SortedByKey(_)
\* sorted(changes, key=internal_time): ascending and stable
SortedByKey(changes) ==
  IF changes = <<>> THEN <<>>
  ELSE InsertByKey(SortedByKey(SubSeq(changes, 1, Len(changes) - 1)),
                   changes[Len(changes)])

Reverse(s) == [k \in 1..Len(s) |-> s[Len(s) + 1 - k]]

\* PersistedChanges without the reverse() of line 339
PersistedAscending(changes) == SortedByKey(changes)

\* lines 337-340: what is written to bloodhound.json
PersistedChanges(changes) == Reverse(SortedByKey(changes))

\* _printable_timezone_change (lines 344-351)
PrintableChange(change) ==
  [effective_at |-> change.effective_at,
   most_recent  |-> KeyOf(change) = 0,
   display_offset |-> change.display_offset,
   timezone |-> change.timezone,
   reason |-> change.reason]

\* as_tidepool (lines 101-122), the fields that depend on the walk
AsTidepool(obj) ==
  [deviceId   |-> <<obj.device_gen, "-=-", obj.serial>>,
   deviceTime |-> parse_datetime(obj.user_time),
   time       |-> obj.time]

\* what an earlier conversion left in the output file
PriorOutput ==
  <<[deviceId |-> <<"G4Platinum", "-=-", "SM0">>, deviceTime |-> 0, time |-> <<0, 0>>]>>

\* ----------------------------------------------------------------- Init
\* DexcomJSON.__init__: self.all sorted, self.offset_changes loaded
Init ==
  /\ all \in Streams
  /\ file \in Files(MaxFile)
  /\ file0 = file
  /\ offset_changes = LoadChanges(file)
  /\ logfile = <<>>
  /\ out = PriorOutput
  /\ pc = "constructed"
  /\ i = 0
  /\ initial_difference = <<>>
  /\ current_difference = <<>>
  /\ effective_ats = <<>>
  /\ current_effective_at = NoTime
  /\ offsets = <<>>
  /\ asked = <<>>
  /\ run = 1
  /\ dct_value = NoValue
  /\ built = <<>>
  /\ previous = NoPrevious

\* bloodhound lines 285-288
Enter ==
  /\ pc = "constructed"
  /\ pc' = "walk"
  /\ i' = 1
  /\ initial_difference' = <<>>
  /\ effective_ats' = [k \in 1..Len(offset_changes) |-> KeyOf(offset_changes[k])]
  /\ current_effective_at' = NoTime
  /\ UNCHANGED <<all, offset_changes, file, logfile, out, current_difference,
                 offsets, asked, file0, others>>

InLoop == pc = "walk" /\ i \in 1..Len(all)

IsMatched(obj) ==
  \E k \in 1..Len(effective_ats) :
     effective_ats[k] = isoformat(parse_datetime(obj.internal_time))

IsGoverned(obj) ==
  ~IsMatched(obj) /\ RawLess(obj.internal_time, current_effective_at)

IsFresh(obj) == ~IsMatched(obj) /\ ~IsGoverned(obj)

\* lines 291-294, then 325-332
Matched ==
  /\ InLoop
  /\ IsMatched(all[i])
  /\ LET change == GetOffsetChange(offset_changes, all[i].internal_time)[1]
         offs == <<change.display_offset, change.timezone>>
     IN  /\ current_effective_at' = all[i].internal_time
         /\ offsets' = offs
         /\ all' = Annotate(all, i, offs)
  /\ i' = i + 1
  /\ UNCHANGED <<offset_changes, file, logfile, out, pc, initial_difference,
                 current_difference, effective_ats, asked, file0, others>>

\* lines 295-297, then 325-332
Governed ==
  /\ InLoop
  /\ IsGoverned(all[i])
  /\ LET change == GetOffsetChange(offset_changes, current_effective_at)[1]
         offs == <<change.display_offset, change.timezone>>
     IN  /\ offsets' = offs
         /\ all' = Annotate(all, i, offs)
  /\ i' = i + 1
  /\ UNCHANGED <<offset_changes, file, logfile, out, pc, initial_difference,
                 current_difference, effective_ats, current_effective_at,
                 asked, file0, others>>

\* Request writing bloodhound.json after every append instead of at the end
RequestWriteThrough(change_type, notstart) ==
  \E res \in TzInputs, dst \in DstInputs :
    LET tz_res == GetTimezone(all[i], change_type, res, dst)
    IN  /\ asked' = Append(asked, [at |-> i, res |-> res, dst |-> dst])
        /\ IF tz_res.raised
           THEN /\ pc' = "aborted"
                /\ UNCHANGED <<all, offset_changes, i, offsets, file,
                               initial_difference, current_difference>>
           ELSE /\ offset_changes' = AppendChange(offset_changes, all[i], tz_res, notstart)
                /\ file' = PersistedChanges(offset_changes')
                /\ offsets' = <<tz_res.offset, tz_res.timezone>>
                /\ all' = Annotate(all, i, offsets')
                /\ current_difference' = DiffOf(all[i])
                /\ initial_difference' =
                     IF initial_difference = <<>> THEN DiffOf(all[i])
                     ELSE initial_difference
                /\ i' = i + 1
                /\ pc' = pc
        /\ UNCHANGED <<logfile, out, effective_ats, current_effective_at, file0, others>>

\* _add_offset_change (lines 182-205) called from the loop for self.all[i],
\* with the user's two answers, and lines 325-332 after it.  An unknown
\* timezone name raises out of bloodhound.
Request(change_type, notstart) ==
  \E res \in TzInputs, dst \in DstInputs :
    LET tz_res == GetTimezone(all[i], change_type, res, dst)
    IN  /\ asked' = Append(asked, [at |-> i, res |-> res, dst |-> dst])
        /\ IF tz_res.raised
           THEN /\ pc' = "aborted"
                /\ UNCHANGED <<all, offset_changes, i, offsets,
                               initial_difference, current_difference>>
           ELSE /\ offset_changes' = AppendChange(offset_changes, all[i], tz_res, notstart)
                /\ offsets' = <<tz_res.offset, tz_res.timezone>>
                /\ all' = Annotate(all, i, offsets')
                /\ current_difference' = DiffOf(all[i])
                /\ initial_difference' =
                     IF initial_difference = <<>> THEN DiffOf(all[i])
                     ELSE initial_difference
                /\ i' = i + 1
                /\ pc' = pc
        /\ UNCHANGED <<file, logfile, out, effective_ats, current_effective_at, file0, others>>

\* lines 307-310
Bootstrap ==
  /\ InLoop
  /\ IsFresh(all[i])
  /\ initial_difference = <<>>
  /\ Request(InputByUser, FALSE)

\* IsDeviceChange with the serial comparison inverted
IsDeviceChangeInverted(obj, last_obj) ==
  obj.serial = last_obj.serial /\ obj.device_gen = "G4Platinum"

IsDeviceChange(obj, last_obj) ==
  obj.serial # last_obj.serial /\ obj.device_gen = "G4Platinum"

\* IsGenerationChange comparing the serials
IsGenerationChangeBySerial(obj, last_obj) == obj.serial # last_obj.serial

IsGenerationChange(obj, last_obj) == obj.device_gen # last_obj.device_gen

\* IsDrift seeing only a difference that grows
IsDriftOneWay(obj, current) == DiffHours(obj) > current[2]

IsDrift(obj, current) == DiffHours(obj) # current[2]

\* lines 312-314
DeviceChange ==
  /\ InLoop
  /\ IsFresh(all[i])
  /\ initial_difference # <<>>
  /\ IsDeviceChange(all[i], all[i - 1])
  /\ Request(DeviceIdentityChange, TRUE)

\* lines 316-318
GenerationChange ==
  /\ InLoop
  /\ IsFresh(all[i])
  /\ initial_difference # <<>>
  /\ ~IsDeviceChange(all[i], all[i - 1])
  /\ IsGenerationChange(all[i], all[i - 1])
  /\ Request(DeviceGenerationChange, TRUE)

\* lines 321-323
Drift ==
  /\ InLoop
  /\ IsFresh(all[i])
  /\ initial_difference # <<>>
  /\ ~IsDeviceChange(all[i], all[i - 1])
  /\ ~IsGenerationChange(all[i], all[i - 1])
  /\ IsDrift(all[i], current_difference)
  /\ Request(InferredDrift, TRUE)

\* no branch of lines 307-323 taken: offsets stays, lines 325-332
NoChange ==
  /\ InLoop
  /\ IsFresh(all[i])
  /\ initial_difference # <<>>
  /\ ~IsDeviceChange(all[i], all[i - 1])
  /\ ~IsGenerationChange(all[i], all[i - 1])
  /\ ~IsDrift(all[i], current_difference)
  /\ all' = Annotate(all, i, offsets)
  /\ i' = i + 1
  /\ UNCHANGED <<offset_changes, file, logfile, out, pc, initial_difference,
                 current_difference, effective_ats, current_effective_at,
                 offsets, asked, file0, others>>

\* lines 334-342: the loop is over, the two log files are written
Persist ==
  /\ pc = "walk"
  /\ i = Len(all) + 1
  /\ logfile' = [k \in 1..Len(offset_changes) |-> PrintableChange(offset_changes[k])]
  /\ file' = PersistedChanges(offset_changes)
  /\ pc' = "returned"
  /\ UNCHANGED <<all, offset_changes, out, i, initial_difference,
                 current_difference, effective_ats, current_effective_at,
                 offsets, asked, file0, others>>

\* print_JSON (lines 353-363)
PrintJSON ==
  /\ pc = "returned"
  /\ out' = [k \in 1..Len(all) |-> AsTidepool(all[k])]
  /\ pc' = "printed"
  /\ UNCHANGED <<all, offset_changes, file, logfile, i, initial_difference,
                 current_difference, effective_ats, current_effective_at,
                 offsets, asked, file0, others>>

\* the script is invoked again on the same CSV: __init__ builds the objects
\* anew and loads the bloodhound.json the last run left
Restart ==
  /\ pc \in {"printed", "aborted"}
  /\ run < MaxRuns
  /\ run' = run + 1
  /\ all' = [k \in 1..Len(all) |-> [all[k] EXCEPT !.display = <<>>, !.time = <<>>]]
  /\ offset_changes' = LoadChanges(file)
  /\ file0' = file
  /\ pc' = "constructed"
  /\ i' = 0
  /\ initial_difference' = <<>>
  /\ current_difference' = <<>>
  /\ effective_ats' = <<>>
  /\ current_effective_at' = NoTime
  /\ offsets' = <<>>
  /\ asked' = <<>>
  /\ previous' = [all |-> all, asked |-> asked, pc |-> pc]
  /\ UNCHANGED <<file, logfile, out, dct_value, built>>

\* Dexcom.__init__ line 64 on one cell
Construct ==
  /\ built = <<>>
  /\ built' = <<SetValue(dct_value)>>
  /\ UNCHANGED <<all, offset_changes, file, logfile, out, pc, i,
                 initial_difference, current_difference, effective_ats,
                 current_effective_at, offsets, asked, file0, run, dct_value,
                 previous>>

\* ------------------------------------------------------------ properties
Last(s) == s[Len(s)]

RECURSIVE Count(_, _)
Count(s, x) ==
  IF s = <<>> THEN 0
  ELSE (IF Head(s) = x THEN 1 ELSE 0) + Count(Tail(s), x)

IsReason(reason, label) == reason = label \/ reason = label \o DstSuffix

\* the change log as this run loaded it
Loaded == LoadChanges(file0)

\* this step is one call of _get_timezone
JustAsked ==
  /\ Len(asked') = Len(asked) + 1
  /\ SubSeq(asked', 1, Len(asked)) = asked
  /\ Last(asked').at = i

\* the name typed in this step is one pytz knows
Recognised == Last(asked').res \in TzDatabase

\* this step appends exactly one record, for the loop's reading, with the reason
AppendedOne(label) ==
  /\ Len(offset_changes') = Len(offset_changes) + 1
  /\ SubSeq(offset_changes', 1, Len(offset_changes)) = offset_changes
  /\ IsReason(Last(offset_changes').reason, label)
  /\ Last(offset_changes').effective_at.internal_time = all[i].internal_time.sec

\* the loop is at a reading other than the first that no loaded record governs
FreshLater == InLoop /\ i > 1 /\ IsFresh(all[i])

\* the reading just processed was classified afresh, asked about, and the
\* record appended for it is the last one of the log
JustRecorded(label) ==
  /\ pc = "walk"
  /\ i >= 3
  /\ current_effective_at = NoTime
  /\ asked # <<>>
  /\ Last(asked).at = i - 1
  /\ Len(offset_changes) > Len(Loaded)
  /\ IsReason(Last(offset_changes).reason, label)
  /\ Last(offset_changes).effective_at.internal_time = all[i - 1].internal_time.sec

\* C1: when the name typed at a prompt is not a timezone pytz knows, the run
\* does not abort: the reading asked about stays without offset, timezone and
\* time, and the walk goes past it.
C1_UnresolvedReadingIsSkipped ==
  \A k \in 1..Len(asked) :
     asked[k].res \notin TzDatabase =>
       /\ pc # "aborted"
       /\ i > asked[k].at
       /\ all[asked[k].at].display = <<>>
       /\ all[asked[k].at].time = <<>>

SingleDeviceNoDrift(s) ==
  \A k \in 1..Len(s) :
     /\ s[k].serial = s[1].serial
     /\ s[k].device_gen = s[1].device_gen
     /\ DiffHours(s[k]) = DiffHours(s[1])

SameOffsetEverywhere(s) ==
  \A k \in 1..Len(s) : s[k].display # <<>> /\ s[k].display = s[1].display

WalkedSingleDevice ==
  /\ pc \in {"returned", "printed"}
  /\ Loaded = <<>>
  /\ all # <<>>
  /\ SingleDeviceNoDrift(all)

C3_SerialChangeOnG4 ==
  [][ ( /\ FreshLater
        /\ all[i].device_gen = "G4Platinum"
        /\ all[i - 1].device_gen = "G4Platinum"
        /\ DiffHours(all[i]) = current_difference[2]
        /\ all[i].serial # all[i - 1].serial )
      => ( JustAsked /\ (Recognised => AppendedOne(DeviceIdentityChange)) ) ]_vars

C3_Witness ==
  /\ JustRecorded(DeviceIdentityChange)
  /\ all[i - 1].device_gen = "G4Platinum"
  /\ all[i - 2].device_gen = "G4Platinum"
  /\ all[i - 1].serial # all[i - 2].serial
  /\ DiffHours(all[i - 1]) = DiffHours(all[i - 2])

GenerationDiffers ==
  /\ FreshLater
  /\ all[i].device_gen # all[i - 1].device_gen
  /\ {all[i].device_gen, all[i - 1].device_gen} = {"SevenPlus", "G4Platinum"}

\* C4 as stated: at a freshly classified reading other than the first whose
\* generation differs from the previous reading's, the record appended has
\* reason "changed to Seven Plus device" (generation change), whatever the
\* serials.
C4_GenerationChangeAnySerial ==
  [][ GenerationDiffers
      => ( JustAsked /\ (Recognised => AppendedOne(DeviceGenerationChange)) ) ]_vars

\* C4 amended: at such a reading the engine asks once and appends one record;
\* its reason is the generation change unless the reading is G4Platinum and its
\* serial differs from the previous reading's, and then it is the
\* device-identity change.
C4_GenerationChangeUnlessG4Serial ==
  [][ GenerationDiffers
      => ( JustAsked /\
           (Recognised =>
              AppendedOne(IF /\ all[i].device_gen = "G4Platinum"
                             /\ all[i].serial # all[i - 1].serial
                          THEN DeviceIdentityChange
                          ELSE DeviceGenerationChange)) ) ]_vars

C4_Witness ==
  /\ JustRecorded(DeviceGenerationChange)
  /\ all[i - 1].device_gen = "SevenPlus"
  /\ all[i - 2].device_gen = "G4Platinum"
  /\ all[i - 1].serial # all[i - 2].serial

\* C5: at a freshly classified reading with the serial and generation of the
\* reading before it: if its diffHours differs from the previous reading's the
\* engine asks once and (the name being one pytz knows) appends one record with
\* reason "inferred via bloodhound protocol" at that reading; if it is the same
\* nothing is asked and nothing appended.
C5_DriftOnlyOnChange ==
  [][ ( /\ FreshLater
        /\ all[i].serial = all[i - 1].serial
        /\ all[i].device_gen = all[i - 1].device_gen )
      => IF DiffHours(all[i]) # DiffHours(all[i - 1])
         THEN JustAsked /\ (Recognised => AppendedOne(InferredDrift))
         ELSE /\ asked' = asked
              /\ offset_changes' = offset_changes
              /\ i' = i + 1 ]_vars

C5_Witness ==
  /\ JustRecorded(InferredDrift)
  /\ i = 4
  /\ \A k \in 2..3 : /\ all[k].serial = all[1].serial
                     /\ all[k].device_gen = all[1].device_gen
  /\ DiffHours(all[2]) = DiffHours(all[1])
  /\ DiffHours(all[3]) # DiffHours(all[2])
  /\ Len(asked) = 2
  /\ Len(offset_changes) = Len(Loaded) + 1

\* C6: no two records of the change log have the same
\* effective_at.internal_time.
C6_UniqueKeys ==
  \A a, b \in 1..Len(offset_changes) :
     a # b => KeyOf(offset_changes[a]) # KeyOf(offset_changes[b])

\* C7: a change log loaded and written again without readings: every record
\* with a key is written as often as the file held it, field for field, no
\* other record with a key is written, and the keys descend.
C7_RoundTrip ==
  pc \in {"returned", "printed"} =>
    /\ \A c \in FileRecords : KeyOf(c) # 0 => Count(file, c) = Count(file0, c)
    /\ \A k \in 1..Len(file) : KeyOf(file[k]) # 0 => Count(file0, file[k]) > 0
    /\ KeysDescending(file)

C7_Witness ==
  /\ pc = "returned"
  /\ all = <<>>
  /\ Len(file0) = 3
  /\ KeyOf(file0[1]) > KeyOf(file0[2])
  /\ KeyOf(file0[3]) = 0
  /\ Len(file) = 2

\* C8: until the walk over all readings has completed, and when it has been
\* aborted, bloodhound.json and the output file hold what they held when the
\* run started.
C8_NothingWrittenBeforeWalkEnds ==
  pc \in {"constructed", "walk", "aborted"} => file = file0 /\ out = PriorOutput

C8_Witness ==
  /\ pc = "aborted"
  /\ Len(offset_changes) > Len(Loaded)
  /\ file0 # <<>>
  /\ all[1].display # <<>>

\* C9: a cell holding an integer from 20 to 600 gives that value and no
\* annotation; "Low" gives 39 and one annotation with threshold 40; "High"
\* gives 401 and one annotation with threshold 400.
C9_ValueMapping ==
  built # <<>> =>
    /\ (dct_value.digits /\ dct_value.n >= 20 /\ dct_value.n <= 600) =>
         /\ ~built[1].raised
         /\ built[1].value = <<dct_value.n>>
         /\ built[1].annotations = <<>>
    /\ (~dct_value.digits /\ dct_value.text = "Low") =>
         /\ built[1].value = <<39>>
         /\ Len(built[1].annotations) = 1
         /\ built[1].annotations[1].threshold = 40
    /\ (~dct_value.digits /\ dct_value.text = "High") =>
         /\ built[1].value = <<401>>
         /\ Len(built[1].annotations) = 1
         /\ built[1].annotations[1].threshold = 400

C9_Witness ==
  /\ built # <<>>
  /\ dct_value = IntCell(600)
  /\ built[1].value = <<600>>

HasLoadedKey(obj) ==
  \E m \in 1..Len(Loaded) : KeyOf(Loaded[m]) = obj.internal_time.sec

\* the matched readings before position k
MatchedBefore(k) == {j \in 1..(k - 1) : HasLoadedKey(all[j])}

Max(S) == CHOOSE x \in S : \A y \in S : y <= x

\* C10: every processed reading whose internal time is the key of a loaded
\* record has that record's offset and timezone; every reading processed after
\* a matched one and without a match of its own has the offset and timezone of
\* the last matched one; at none of them is a prompt made or a record appended.
C10_LoadedRecordGoverns ==
  /\ \A k \in 1..(i - 1) : \A m \in 1..Len(Loaded) :
        KeyOf(Loaded[m]) = all[k].internal_time.sec =>
          all[k].display = <<Loaded[m].display_offset, Loaded[m].timezone>>
  /\ \A k \in 1..(i - 1) :
        (~HasLoadedKey(all[k]) /\ MatchedBefore(k) # {}) =>
          all[k].display = all[Max(MatchedBefore(k))].display
  /\ \A a \in 1..Len(asked) :
        ~HasLoadedKey(all[asked[a].at]) /\ MatchedBefore(asked[a].at) = {}
  /\ Len(offset_changes) - Len(Loaded) <= Len(asked)

\* the whole hours nearest to s seconds, an exact half hour going away from zero
NearestHourHalfAway(s) ==
  IF s >= 0 THEN (2 * s + SECONDS_IN_HOUR) \div (2 * SECONDS_IN_HOUR)
  ELSE -((2 * (-s) + SECONDS_IN_HOUR) \div (2 * SECONDS_IN_HOUR))

\* C11: the diffHours computed for a reading is the difference of its two
\* clocks (display minus internal) in hours, rounded to the nearest whole hour,
\* an exact half hour away from zero: -0.5 h gives -1, -2.5 h gives -3.
C11_HalfAwayFromZero ==
  (pc = "walk" /\ i = 2 /\ current_difference # <<>>) =>
    current_difference[2] =
      NearestHourHalfAway(parse_datetime(all[1].user_time)
                          - parse_datetime(all[1].internal_time))

\* this is the invocation after one that walked all its readings and wrote
\* its files
Replaying == run = 2 /\ previous.pc = "printed"

\* the prompt at the first reading, if made, was answered as in the invocation
\* before
SameBootstrapAnswer ==
  asked # <<>> =>
    /\ previous.asked # <<>>
    /\ asked[1].at = previous.asked[1].at
    /\ asked[1].res = previous.asked[1].res
    /\ asked[1].dst = previous.asked[1].dst

\* C12: when the script is run over a stream from an empty change log and then
\* again over the same stream from the bloodhound.json the first run wrote, the
\* prompt at the first reading answered as before, every reading the second
\* run has processed has the offset and timezone the first run gave it, also
\* when readings share an internal time.
C12_ReplayAssignsTheSame ==
  (Replaying /\ SameBootstrapAnswer) =>
    \A k \in 1..(i - 1) : all[k].display = previous.all[k].display

\* C12 over the streams whose readings have pairwise different internal times
C12_ReplayDistinctTimes ==
  ( /\ Replaying
    /\ SameBootstrapAnswer
    /\ \A a, b \in 1..Len(all) :
          a # b => all[a].internal_time.sec # all[b].internal_time.sec ) =>
    /\ \A k \in 1..(i - 1) : all[k].display = previous.all[k].display
    /\ Len(asked) <= 1

C12_DistinctWitness ==
  /\ Replaying
  /\ pc = "printed"
  /\ Len(all) = 2
  /\ all[1].internal_time.sec # all[2].internal_time.sec
  /\ Len(Loaded) = 1
  /\ all[2].display # all[1].display

Next ==
  \/ Enter
  \/ Matched
  \/ Governed
  \/ Bootstrap
  \/ DeviceChange
  \/ GenerationChange
  \/ Drift
  \/ NoChange
  \/ Persist
  \/ PrintJSON

\* one invocation of the script over a stream and a change log of at most
\* MaxFile records
Spec == Init /\ [][Next]_vars

\* a change log of up to MaxSaved records and a CSV without readings
InitRoundTrip ==
  /\ all = <<>>
  /\ file \in Files(MaxSaved)
  /\ file0 = file
  /\ offset_changes = LoadChanges(file)
  /\ logfile = <<>>
  /\ out = PriorOutput
  /\ pc = "constructed"
  /\ i = 0
  /\ initial_difference = <<>>
  /\ current_difference = <<>>
  /\ effective_ats = <<>>
  /\ current_effective_at = NoTime
  /\ offsets = <<>>
  /\ asked = <<>>
  /\ run = 1
  /\ dct_value = NoValue
  /\ built = <<>>
  /\ previous = NoPrevious

NextRoundTrip ==
  \/ Enter
  \/ Persist
  \/ PrintJSON

SpecRoundTrip == InitRoundTrip /\ [][NextRoundTrip]_vars

\* the first invocation finds no bloodhound.json; the script is then invoked
\* again on the same CSV
InitRerun ==
  /\ all \in Streams
  /\ file = <<>>
  /\ file0 = file
  /\ offset_changes = LoadChanges(file)
  /\ logfile = <<>>
  /\ out = PriorOutput
  /\ pc = "constructed"
  /\ i = 0
  /\ initial_difference = <<>>
  /\ current_difference = <<>>
  /\ effective_ats = <<>>
  /\ current_effective_at = NoTime
  /\ offsets = <<>>
  /\ asked = <<>>
  /\ run = 1
  /\ dct_value = NoValue
  /\ built = <<>>
  /\ previous = NoPrevious

NextRerun ==
  \/ Next
  \/ Restart

SpecRerun == InitRerun /\ [][NextRerun]_vars

\* one invocation, without bloodhound.json, over the one reading of a receiver
\* whose display clock is skewed
InitDifference ==
  /\ all \in {<<r>> : r \in SkewedReadings}
  /\ file = <<>>
  /\ file0 = file
  /\ offset_changes = LoadChanges(file)
  /\ logfile = <<>>
  /\ out = PriorOutput
  /\ pc = "constructed"
  /\ i = 0
  /\ initial_difference = <<>>
  /\ current_difference = <<>>
  /\ effective_ats = <<>>
  /\ current_effective_at = NoTime
  /\ offsets = <<>>
  /\ asked = <<>>
  /\ run = 1
  /\ dct_value = NoValue
  /\ built = <<>>
  /\ previous = NoPrevious

NextDifference ==
  \/ Enter
  \/ Bootstrap
  \/ Persist
  \/ PrintJSON

SpecDifference == InitDifference /\ [][NextDifference]_vars

\* one reading built from one cell
InitValue ==
  /\ dct_value \in RawValues
  /\ built = <<>>
  /\ all = <<>>
  /\ file = <<>>
  /\ file0 = <<>>
  /\ offset_changes = <<>>
  /\ logfile = <<>>
  /\ out = PriorOutput
  /\ pc = "constructed"
  /\ i = 0
  /\ initial_difference = <<>>
  /\ current_difference = <<>>
  /\ effective_ats = <<>>
  /\ current_effective_at = NoTime
  /\ offsets = <<>>
  /\ asked = <<>>
  /\ run = 1
  /\ previous = NoPrevious

NextValue == Construct

SpecValue == InitValue /\ [][NextValue]_vars

====
